---- MODULE Spec2Model ----
(***************************************************************************)
(* A model of app.py, the LINE webhook that answers a 4-letter ICAO code   *)
(* with the station's METAR and TAF bulletins.                             *)
(*                                                                         *)
(* Text is modelled as Python models it: a str is the sequence of its      *)
(* Unicode code points, so every literal of the source is written as the   *)
(* tuple of its code points and every operation on text (strip, upper,     *)
(* split, fullmatch, join, f-string substitution) is computed on those.    *)
(***************************************************************************)
EXTENDS Integers, Sequences, FiniteSets, TLC

VARIABLES
    pc,             \* where the server is: "idle", "dispatch" (inside handler.handle), "done"
    request,        \* the POST /callback being served: its body and X-Line-Signature
    http_status,    \* the status the request was answered with, 0 while unanswered
    remaining,      \* events of the envelope not yet dispatched
    handled,        \* invocations of handle_message while serving this request
    reply_calls,    \* invocations of line_bot_api.reply_message while serving this request
    event,          \* the text-message event handle_message was last invoked with
    metar_response, \* what requests.get(METAR_URL) did for that event
    taf_response,   \* what requests.get(TAF_URL) did for that event
    weather,        \* what get_aviation_weather returned for that event
    get_log,        \* the URLs requests.get was called with for that event, in order
    reply_log,      \* the reply_message calls made for that event, in order
    raised          \* the exception that escaped handle_message, "none" if it returned

vars == <<pc, request, http_status, remaining, handled, reply_calls, event,
          metar_response, taf_response, weather, get_log, reply_log, raised>>

-----------------------------------------------------------------------------
(* Bounds of the model. *)

\* Longest message text an event carries.
MaxTextLen == 4

\* Longest response body the weather mirror returns.
MaxBodyLen == 3

\* Most events one webhook envelope carries.
MaxEvents == 1

-----------------------------------------------------------------------------
(* Python's str operations, on sequences of code points. *)

\* str.isspace for one character: the code points Python treats as whitespace.
IsSpace(c) ==
    \/ c \in 9..13
    \/ c \in 28..32
    \/ c \in {133, 160, 5760, 8232, 8233, 8239, 8287, 12288}
    \/ c \in 8192..8202

\* str.upper, character by character, is Unicode's full uppercase mapping
\* (Unicode 14.0.0, the version of the CPython 3.11 that runs app.py). The
\* characters whose uppercase form is one other character, as runs
\* <<first, last, step, offset>>: every step-th code point c from first to
\* last maps to c + offset.
UPPER_RUNS ==
    <<<<97, 122, 1, -32>>, <<181, 181, 1, 743>>, <<224, 246, 1, -32>>,
      <<248, 254, 1, -32>>, <<255, 255, 1, 121>>, <<257, 303, 2, -1>>,
      <<305, 305, 1, -232>>, <<307, 311, 2, -1>>, <<314, 328, 2, -1>>,
      <<331, 375, 2, -1>>, <<378, 382, 2, -1>>, <<383, 383, 1, -300>>,
      <<384, 384, 1, 195>>, <<387, 389, 2, -1>>, <<392, 392, 1, -1>>,
      <<396, 396, 1, -1>>, <<402, 402, 1, -1>>, <<405, 405, 1, 97>>, <<409, 409, 1, -1>>,
      <<410, 410, 1, 163>>, <<414, 414, 1, 130>>, <<417, 421, 2, -1>>,
      <<424, 424, 1, -1>>, <<429, 429, 1, -1>>, <<432, 432, 1, -1>>, <<436, 438, 2, -1>>,
      <<441, 441, 1, -1>>, <<445, 445, 1, -1>>, <<447, 447, 1, 56>>, <<453, 453, 1, -1>>,
      <<454, 454, 1, -2>>, <<456, 456, 1, -1>>, <<457, 457, 1, -2>>, <<459, 459, 1, -1>>,
      <<460, 460, 1, -2>>, <<462, 476, 2, -1>>, <<477, 477, 1, -79>>,
      <<479, 495, 2, -1>>, <<498, 498, 1, -1>>, <<499, 499, 1, -2>>, <<501, 501, 1, -1>>,
      <<505, 543, 2, -1>>, <<547, 563, 2, -1>>, <<572, 572, 1, -1>>,
      <<575, 576, 1, 10815>>, <<578, 578, 1, -1>>, <<583, 591, 2, -1>>,
      <<592, 592, 1, 10783>>, <<593, 593, 1, 10780>>, <<594, 594, 1, 10782>>,
      <<595, 595, 1, -210>>, <<596, 596, 1, -206>>, <<598, 599, 1, -205>>,
      <<601, 601, 1, -202>>, <<603, 603, 1, -203>>, <<604, 604, 1, 42319>>,
      <<608, 608, 1, -205>>, <<609, 609, 1, 42315>>, <<611, 611, 1, -207>>,
      <<613, 613, 1, 42280>>, <<614, 614, 1, 42308>>, <<616, 616, 1, -209>>,
      <<617, 617, 1, -211>>, <<618, 618, 1, 42308>>, <<619, 619, 1, 10743>>,
      <<620, 620, 1, 42305>>, <<623, 623, 1, -211>>, <<625, 625, 1, 10749>>,
      <<626, 626, 1, -213>>, <<629, 629, 1, -214>>, <<637, 637, 1, 10727>>,
      <<640, 640, 1, -218>>, <<642, 642, 1, 42307>>, <<643, 643, 1, -218>>,
      <<647, 647, 1, 42282>>, <<648, 648, 1, -218>>, <<649, 649, 1, -69>>,
      <<650, 651, 1, -217>>, <<652, 652, 1, -71>>, <<658, 658, 1, -219>>,
      <<669, 669, 1, 42261>>, <<670, 670, 1, 42258>>, <<837, 837, 1, 84>>,
      <<881, 883, 2, -1>>, <<887, 887, 1, -1>>, <<891, 893, 1, 130>>,
      <<940, 940, 1, -38>>, <<941, 943, 1, -37>>, <<945, 961, 1, -32>>,
      <<962, 962, 1, -31>>, <<963, 971, 1, -32>>, <<972, 972, 1, -64>>,
      <<973, 974, 1, -63>>, <<976, 976, 1, -62>>, <<977, 977, 1, -57>>,
      <<981, 981, 1, -47>>, <<982, 982, 1, -54>>, <<983, 983, 1, -8>>,
      <<985, 1007, 2, -1>>, <<1008, 1008, 1, -86>>, <<1009, 1009, 1, -80>>,
      <<1010, 1010, 1, 7>>, <<1011, 1011, 1, -116>>, <<1013, 1013, 1, -96>>,
      <<1016, 1016, 1, -1>>, <<1019, 1019, 1, -1>>, <<1072, 1103, 1, -32>>,
      <<1104, 1119, 1, -80>>, <<1121, 1153, 2, -1>>, <<1163, 1215, 2, -1>>,
      <<1218, 1230, 2, -1>>, <<1231, 1231, 1, -15>>, <<1233, 1327, 2, -1>>,
      <<1377, 1414, 1, -48>>, <<4304, 4346, 1, 3008>>, <<4349, 4351, 1, 3008>>,
      <<5112, 5117, 1, -8>>, <<7296, 7296, 1, -6254>>, <<7297, 7297, 1, -6253>>,
      <<7298, 7298, 1, -6244>>, <<7299, 7300, 1, -6242>>, <<7301, 7301, 1, -6243>>,
      <<7302, 7302, 1, -6236>>, <<7303, 7303, 1, -6181>>, <<7304, 7304, 1, 35266>>,
      <<7545, 7545, 1, 35332>>, <<7549, 7549, 1, 3814>>, <<7566, 7566, 1, 35384>>,
      <<7681, 7829, 2, -1>>, <<7835, 7835, 1, -59>>, <<7841, 7935, 2, -1>>,
      <<7936, 7943, 1, 8>>, <<7952, 7957, 1, 8>>, <<7968, 7975, 1, 8>>,
      <<7984, 7991, 1, 8>>, <<8000, 8005, 1, 8>>, <<8017, 8023, 2, 8>>,
      <<8032, 8039, 1, 8>>, <<8048, 8049, 1, 74>>, <<8050, 8053, 1, 86>>,
      <<8054, 8055, 1, 100>>, <<8056, 8057, 1, 128>>, <<8058, 8059, 1, 112>>,
      <<8060, 8061, 1, 126>>, <<8112, 8113, 1, 8>>, <<8126, 8126, 1, -7205>>,
      <<8144, 8145, 1, 8>>, <<8160, 8161, 1, 8>>, <<8165, 8165, 1, 7>>,
      <<8526, 8526, 1, -28>>, <<8560, 8575, 1, -16>>, <<8580, 8580, 1, -1>>,
      <<9424, 9449, 1, -26>>, <<11312, 11359, 1, -48>>, <<11361, 11361, 1, -1>>,
      <<11365, 11365, 1, -10795>>, <<11366, 11366, 1, -10792>>, <<11368, 11372, 2, -1>>,
      <<11379, 11379, 1, -1>>, <<11382, 11382, 1, -1>>, <<11393, 11491, 2, -1>>,
      <<11500, 11502, 2, -1>>, <<11507, 11507, 1, -1>>, <<11520, 11557, 1, -7264>>,
      <<11559, 11559, 1, -7264>>, <<11565, 11565, 1, -7264>>, <<42561, 42605, 2, -1>>,
      <<42625, 42651, 2, -1>>, <<42787, 42799, 2, -1>>, <<42803, 42863, 2, -1>>,
      <<42874, 42876, 2, -1>>, <<42879, 42887, 2, -1>>, <<42892, 42892, 1, -1>>,
      <<42897, 42899, 2, -1>>, <<42900, 42900, 1, 48>>, <<42903, 42921, 2, -1>>,
      <<42933, 42947, 2, -1>>, <<42952, 42954, 2, -1>>, <<42961, 42961, 1, -1>>,
      <<42967, 42969, 2, -1>>, <<42998, 42998, 1, -1>>, <<43859, 43859, 1, -928>>,
      <<43888, 43967, 1, -38864>>, <<65345, 65370, 1, -32>>, <<66600, 66639, 1, -40>>,
      <<66776, 66811, 1, -40>>, <<66967, 67003, 2, -39>>, <<66968, 66976, 2, -39>>,
      <<66980, 66992, 2, -39>>, <<66996, 67000, 2, -39>>, <<67004, 67004, 1, -39>>,
      <<68800, 68850, 1, -64>>, <<71872, 71903, 1, -32>>, <<93792, 93823, 1, -32>>,
      <<125218, 125251, 1, -34>>>>

\* The characters whose uppercase form is several characters (SHARP S -> "SS",
\* the ligatures U+FB00..U+FB06 -> "FF", "FI", "FL", "FFI", "FFL", "ST", "ST", ...),
\* as pairs <<character, uppercase form>>.
UPPER_SPECIAL ==
    <<<<223, <<83, 83>>>>, <<329, <<700, 78>>>>, <<496, <<74, 780>>>>,
      <<912, <<921, 776, 769>>>>, <<944, <<933, 776, 769>>>>, <<1415, <<1333, 1362>>>>,
      <<7830, <<72, 817>>>>, <<7831, <<84, 776>>>>, <<7832, <<87, 778>>>>,
      <<7833, <<89, 778>>>>, <<7834, <<65, 702>>>>, <<8016, <<933, 787>>>>,
      <<8018, <<933, 787, 768>>>>, <<8020, <<933, 787, 769>>>>,
      <<8022, <<933, 787, 834>>>>, <<8064, <<7944, 921>>>>, <<8065, <<7945, 921>>>>,
      <<8066, <<7946, 921>>>>, <<8067, <<7947, 921>>>>, <<8068, <<7948, 921>>>>,
      <<8069, <<7949, 921>>>>, <<8070, <<7950, 921>>>>, <<8071, <<7951, 921>>>>,
      <<8072, <<7944, 921>>>>, <<8073, <<7945, 921>>>>, <<8074, <<7946, 921>>>>,
      <<8075, <<7947, 921>>>>, <<8076, <<7948, 921>>>>, <<8077, <<7949, 921>>>>,
      <<8078, <<7950, 921>>>>, <<8079, <<7951, 921>>>>, <<8080, <<7976, 921>>>>,
      <<8081, <<7977, 921>>>>, <<8082, <<7978, 921>>>>, <<8083, <<7979, 921>>>>,
      <<8084, <<7980, 921>>>>, <<8085, <<7981, 921>>>>, <<8086, <<7982, 921>>>>,
      <<8087, <<7983, 921>>>>, <<8088, <<7976, 921>>>>, <<8089, <<7977, 921>>>>,
      <<8090, <<7978, 921>>>>, <<8091, <<7979, 921>>>>, <<8092, <<7980, 921>>>>,
      <<8093, <<7981, 921>>>>, <<8094, <<7982, 921>>>>, <<8095, <<7983, 921>>>>,
      <<8096, <<8040, 921>>>>, <<8097, <<8041, 921>>>>, <<8098, <<8042, 921>>>>,
      <<8099, <<8043, 921>>>>, <<8100, <<8044, 921>>>>, <<8101, <<8045, 921>>>>,
      <<8102, <<8046, 921>>>>, <<8103, <<8047, 921>>>>, <<8104, <<8040, 921>>>>,
      <<8105, <<8041, 921>>>>, <<8106, <<8042, 921>>>>, <<8107, <<8043, 921>>>>,
      <<8108, <<8044, 921>>>>, <<8109, <<8045, 921>>>>, <<8110, <<8046, 921>>>>,
      <<8111, <<8047, 921>>>>, <<8114, <<8122, 921>>>>, <<8115, <<913, 921>>>>,
      <<8116, <<902, 921>>>>, <<8118, <<913, 834>>>>, <<8119, <<913, 834, 921>>>>,
      <<8124, <<913, 921>>>>, <<8130, <<8138, 921>>>>, <<8131, <<919, 921>>>>,
      <<8132, <<905, 921>>>>, <<8134, <<919, 834>>>>, <<8135, <<919, 834, 921>>>>,
      <<8140, <<919, 921>>>>, <<8146, <<921, 776, 768>>>>, <<8147, <<921, 776, 769>>>>,
      <<8150, <<921, 834>>>>, <<8151, <<921, 776, 834>>>>, <<8162, <<933, 776, 768>>>>,
      <<8163, <<933, 776, 769>>>>, <<8164, <<929, 787>>>>, <<8166, <<933, 834>>>>,
      <<8167, <<933, 776, 834>>>>, <<8178, <<8186, 921>>>>, <<8179, <<937, 921>>>>,
      <<8180, <<911, 921>>>>, <<8182, <<937, 834>>>>, <<8183, <<937, 834, 921>>>>,
      <<8188, <<937, 921>>>>, <<64256, <<70, 70>>>>, <<64257, <<70, 73>>>>,
      <<64258, <<70, 76>>>>, <<64259, <<70, 70, 73>>>>, <<64260, <<70, 70, 76>>>>,
      <<64261, <<83, 84>>>>, <<64262, <<83, 84>>>>, <<64275, <<1348, 1350>>>>,
      <<64276, <<1348, 1333>>>>, <<64277, <<1348, 1339>>>>, <<64278, <<1358, 1350>>>>,
      <<64279, <<1348, 1341>>>>>>

\* The code point lies on the run.
InRun(c, run) == run[1] <= c /\ c <= run[2] /\ (c - run[1]) % run[3] = 0

\* The characters that are not their own uppercase form.
UPPER_DOMAIN ==
    {UPPER_SPECIAL[i][1] : i \in DOMAIN UPPER_SPECIAL}
    \cup UNION {{c \in UPPER_RUNS[i][1]..UPPER_RUNS[i][2] : InRun(c, UPPER_RUNS[i])} :
                  i \in DOMAIN UPPER_RUNS}

\* The uppercase form of a character of UPPER_DOMAIN, looked up in the tables.
UpperForm(c) ==
    IF \E i \in DOMAIN UPPER_SPECIAL : UPPER_SPECIAL[i][1] = c
    THEN UPPER_SPECIAL[CHOOSE i \in DOMAIN UPPER_SPECIAL : UPPER_SPECIAL[i][1] = c][2]
    ELSE <<c + UPPER_RUNS[CHOOSE i \in DOMAIN UPPER_RUNS : InRun(c, UPPER_RUNS[i])][4]>>

\* The two tables as one function. (f @@ g is f extended by g; extending by
\* the empty function changes nothing and has TLC tabulate it once.)
UPPER_OF == [c \in UPPER_DOMAIN |-> UpperForm(c)] @@ <<>>

\* str.upper for one character: its uppercase form, itself if it has none.
UpperChar(c) == IF c \in UPPER_DOMAIN THEN UPPER_OF[c] ELSE <<c>>

RECURSIVE Upper(_)
\* str.upper
Upper(s) ==
    IF s = <<>> THEN <<>> ELSE UpperChar(Head(s)) \o Upper(Tail(s))

RECURSIVE LStrip(_)
LStrip(s) ==
    IF s # <<>> /\ IsSpace(Head(s)) THEN LStrip(Tail(s)) ELSE s

RECURSIVE RStrip(_)
RStrip(s) ==
    IF s # <<>> /\ IsSpace(s[Len(s)]) THEN RStrip(SubSeq(s, 1, Len(s) - 1)) ELSE s

\* str.strip with no argument: whitespace removed from both ends.
Strip(s) == RStrip(LStrip(s))

RECURSIVE Split(_, _)
\* str.split(sep) for a one-character separator: the pieces between the
\* separators, empty pieces kept; the empty string splits into one empty piece.
Split(s, sep) ==
    IF \E i \in 1..Len(s) : s[i] = sep
    THEN LET i == CHOOSE k \in 1..Len(s) : s[k] = sep /\ \A j \in 1..(k - 1) : s[j] # sep
         IN  <<SubSeq(s, 1, i - 1)>> \o Split(SubSeq(s, i + 1, Len(s)), sep)
    ELSE <<s>>

RECURSIVE Join(_, _)
\* sep.join(parts)
Join(sep, parts) ==
    IF parts = <<>> THEN <<>>
    ELSE IF Len(parts) = 1 THEN parts[1]
    ELSE parts[1] \o sep \o Join(sep, Tail(parts))

\* re.fullmatch(r'^[A-Z]{4}$', s): the whole of s is four characters of A-Z.
\* ($ also matches before a final newline, but fullmatch must consume it, and
\* [A-Z]{4} cannot.)
FullMatchIcao(s) ==
    /\ Len(s) = 4
    /\ \A i \in 1..4 : s[i] \in 65..90

\* Python's None, kept apart from every str (no str holds the code point -1).
None == <<-1>>

\* Truthiness of a value that is a str or None: a non-empty str.
Truthy(x) == x # None /\ x # <<>>

\* What an f-string substitutes for a value that is a str or None.
Format(x) == IF x = None THEN <<78, 111, 110, 101>> ELSE x

\* All sequences over S of length at most n.
SeqsUpTo(S, n) == UNION {[1..k -> S] : k \in 0..n}

-----------------------------------------------------------------------------
(* The literals of app.py, as code points. *)

\* "https://tgftp.nws.noaa.gov/data/observations/metar/stations/" (line 31)
METAR_URL_PREFIX ==
    <<104, 116, 116, 112, 115, 58, 47, 47, 116, 103, 102, 116, 112, 46, 110, 119, 115,
      46, 110, 111, 97, 97, 46, 103, 111, 118, 47, 100, 97, 116, 97, 47, 111, 98, 115,
      101, 114, 118, 97, 116, 105, 111, 110, 115, 47, 109, 101, 116, 97, 114, 47, 115,
      116, 97, 116, 105, 111, 110, 115, 47>>

\* "https://tgftp.nws.noaa.gov/data/forecasts/taf/stations/" (line 32)
TAF_URL_PREFIX ==
    <<104, 116, 116, 112, 115, 58, 47, 47, 116, 103, 102, 116, 112, 46, 110, 119, 115,
      46, 110, 111, 97, 97, 46, 103, 111, 118, 47, 100, 97, 116, 97, 47, 102, 111, 114,
      101, 99, 97, 115, 116, 115, 47, 116, 97, 102, 47, 115, 116, 97, 116, 105, 111,
      110, 115, 47>>

\* ".TXT" (lines 31-32)
URL_SUFFIX ==
    <<46, 84, 88, 84>>

\* line 61, the literal before {icao_code}: "cannot find "
NO_DATA_HEAD ==
    <<25214, 19981, 21040, 32>>

\* line 61, the literal after {icao_code}: "'s METAR/TAF data. Please check the code."
NO_DATA_TAIL ==
    <<32, 30340, 32, 77, 69, 84, 65, 82, 47, 84, 65, 70, 32, 36039, 26009, 12290,
      35531, 30906, 35469, 20195, 30908, 26159, 21542, 27491, 30906, 12290>>

\* line 68, the literal before {icao_code}: "cannot find "
NOT_FOUND_HEAD ==
    <<25214, 19981, 21040, 32>>

\* line 68, the literal after {icao_code}: "'s weather report. This ICAO code may not provide METAR/TAF reports."
NOT_FOUND_TAIL ==
    <<32, 30340, 27683, 35937, 22577, 21578, 12290, 35442, 32, 73, 67, 65, 79, 32,
      20195, 30908, 21487, 33021, 27794, 26377, 25552, 20379, 32, 77, 69, 84, 65, 82,
      47, 84, 65, 70, 32, 22577, 21578, 12290>>

\* line 71: "error while connecting to the weather API:"
API_ERROR_HEAD ==
    <<36899, 32218, 33267, 27683, 35937, 32, 65, 80, 73, 32, 26178, 30332, 29983,
      37679, 35492, 65306>>

\* line 74: "unexpected error while processing weather data:"
UNEXPECTED_ERROR_HEAD ==
    <<34389, 29702, 27683, 35937, 36039, 26009, 26178, 30332, 29983, 26410, 38928,
      26399, 30340, 37679, 35492, 65306>>

\* lines 97-100: the fixed format-error reply (warning sign, "format error!", newline,
\* "please enter a 4-letter ICAO airport code (e.g. RCTP, RJAA, KLAX)")
FORMAT_ERROR_TEXT ==
    <<9888, 65039, 32, 26684, 24335, 37679, 35492, 65281, 10, 35531, 36664, 20837,
      19968, 20491, 32, 42, 42, 52, 32, 30908, 32, 73, 67, 65, 79, 32, 27231, 22580,
      20195, 30908, 42, 42, 65288, 20363, 22914, 65306, 42, 42, 82, 67, 84, 80, 42, 42,
      12289, 42, 42, 82, 74, 65, 65, 42, 42, 12289, 42, 42, 75, 76, 65, 88, 42, 42,
      65289, 12290>>

\* line 115, the literal before {icao_code}: airplane emoji and " **"
REPORT_HEAD ==
    <<9992, 65039, 32, 42, 42>>

\* line 115, the literal after {icao_code}, ending in a newline
REPORT_TAIL ==
    <<42, 42, 32, 33322, 31354, 27683, 35937, 22577, 21578, 32, 40, 65, 118, 105, 97,
      116, 105, 111, 110, 32, 87, 101, 97, 116, 104, 101, 114, 32, 82, 101, 112, 111,
      114, 116, 41, 10>>

\* line 119: the observation section title
METAR_SECTION ==
    <<45, 45, 45, 32, 35264, 28204, 22577, 21578, 32, 40, 77, 69, 84, 65, 82, 41, 32,
      45, 45, 45>>

\* lines 123 and 130, the literal before {icao_code}: cross mark and "cannot find "
MISSING_HEAD ==
    <<10060, 32, 25214, 19981, 21040, 32>>

\* line 123, the literal after {icao_code}: "'s latest METAR data."
METAR_MISSING_TAIL ==
    <<32, 30340, 26368, 26032, 32, 77, 69, 84, 65, 82, 32, 36039, 26009, 12290>>

\* line 126: a newline and the forecast section title
TAF_SECTION ==
    <<10, 45, 45, 45, 32, 38928, 22577, 32, 40, 84, 65, 70, 41, 32, 45, 45, 45>>

\* line 130, the literal after {icao_code}: "'s latest TAF data."
TAF_MISSING_TAIL ==
    <<32, 30340, 26368, 26032, 32, 84, 65, 70, 32, 36039, 26009, 12290>>

\* line 134: siren emoji, "query failed:" and a newline
QUERY_FAILED_HEAD ==
    <<128680, 32, 26597, 35426, 22833, 25943, 65306, 10>>

-----------------------------------------------------------------------------
(* The outside world: the weather mirror, as requests.get sees it. *)

\* No request was made.
NotRequested == [exc |-> "not_requested", status_code |-> 0, text |-> <<>>]

\* Characters a message text is drawn from: "a", LATIN SMALL LETTER LONG S,
\* space and "1".
TextAlphabet == {97, 383, 32, 49}

\* Characters a response body is drawn from: newline and "D".
BodyAlphabet == {10, 68}

\* The message texts an event may carry.
Texts == SeqsUpTo(TextAlphabet, MaxTextLen)

\* What one requests.get may do: answer 200 with some body, answer with an
\* error status (whose body the program never reads), or raise a transport
\* exception of the requests library.
Responses ==
    {[exc |-> "none", status_code |-> 200, text |-> b] : b \in SeqsUpTo(BodyAlphabet, MaxBodyLen)}
    \cup {[exc |-> "none", status_code |-> s, text |-> <<>>] : s \in {404, 500}}
    \cup {[exc |-> e, status_code |-> 0, text |-> <<>>] : e \in {"ReadTimeout", "ConnectionError"}}

\* e.__class__.__name__
ClassName(exc) ==
    CASE exc = "HTTPError" -> <<72, 84, 84, 80, 69, 114, 114, 111, 114>>
      [] exc = "ReadTimeout" -> <<82, 101, 97, 100, 84, 105, 109, 101, 111, 117, 116>>
      [] exc = "ConnectionError" ->
            <<67, 111, 110, 110, 101, 99, 116, 105, 111, 110, 69, 114, 114, 111, 114>>

-----------------------------------------------------------------------------
(* get_aviation_weather *)

METAR_URL(icao_code) == METAR_URL_PREFIX \o icao_code \o URL_SUFFIX

TAF_URL(icao_code) == TAF_URL_PREFIX \o icao_code \o URL_SUFFIX

\* requests.get(...) followed by raise_for_status(): the exception the pair
\* raises, "none" if neither does. raise_for_status raises HTTPError for a
\* status of 400 to 599.
RaisedBy(resp) ==
    IF resp.exc # "none" THEN resp.exc
    ELSE IF 400 <= resp.status_code /\ resp.status_code < 600 THEN "HTTPError"
    ELSE "none"

\* Lines 47-49 and 55-57: the second line of the stripped body, "" if it has none.
DataLine(lines) == IF Len(lines) > 1 THEN lines[2] ELSE <<>>

metar_data(metar_resp) == DataLine(Split(Strip(metar_resp.text), 10))

taf_data(taf_resp) == DataLine(Split(Strip(taf_resp.text), 10))

\* ExceptClauses without its second clause (only HTTPError is caught): any
\* other exception leaves the function.
ExceptClauses_HTTPErrorOnly(icao_code, exc, status_code) ==
    IF exc = "HTTPError"
    THEN IF status_code = 404
         THEN [ret |-> <<None, NOT_FOUND_HEAD \o icao_code \o NOT_FOUND_TAIL>>, raised |-> "none"]
         ELSE [ret |-> <<None, API_ERROR_HEAD \o ClassName(exc)>>, raised |-> "none"]
    ELSE [ret |-> <<>>, raised |-> exc]

\* ExceptClauses with the status test of line 67 widened from "== 404" to
\* ">= 400".
ExceptClauses_AnyStatus(icao_code, exc, status_code) ==
    IF exc = "HTTPError"
    THEN IF status_code >= 400
         THEN [ret |-> <<None, NOT_FOUND_HEAD \o icao_code \o NOT_FOUND_TAIL>>, raised |-> "none"]
         ELSE [ret |-> <<None, API_ERROR_HEAD \o ClassName(exc)>>, raised |-> "none"]
    ELSE [ret |-> <<None, UNEXPECTED_ERROR_HEAD \o ClassName(exc)>>, raised |-> "none"]

\* The two except clauses: what the function returns, or the exception it lets
\* through, when exc was raised by the request that answered status_code.
ExceptClauses(icao_code, exc, status_code) ==
    IF exc = "HTTPError"
    THEN IF status_code = 404
         THEN [ret |-> <<None, NOT_FOUND_HEAD \o icao_code \o NOT_FOUND_TAIL>>, raised |-> "none"]
         ELSE [ret |-> <<None, API_ERROR_HEAD \o ClassName(exc)>>, raised |-> "none"]
    ELSE [ret |-> <<None, UNEXPECTED_ERROR_HEAD \o ClassName(exc)>>, raised |-> "none"]

\* The URLs requested, in order: the TAF is requested only once the METAR
\* request and its raise_for_status have gone through.
Requested(icao_code, metar_resp) ==
    IF RaisedBy(metar_resp) = "none"
    THEN <<METAR_URL(icao_code), TAF_URL(icao_code)>>
    ELSE <<METAR_URL(icao_code)>>

\* The function's result: ret is the pair it returns, raised the exception it
\* lets through.
get_aviation_weather(icao_code, metar_resp, taf_resp) ==
    IF RaisedBy(metar_resp) # "none"
    THEN ExceptClauses(icao_code, RaisedBy(metar_resp), metar_resp.status_code)
    ELSE IF RaisedBy(taf_resp) # "none"
    THEN ExceptClauses(icao_code, RaisedBy(taf_resp), taf_resp.status_code)
    ELSE IF ~Truthy(metar_data(metar_resp)) /\ ~Truthy(taf_data(taf_resp))
    THEN [ret |-> <<None, NO_DATA_HEAD \o icao_code \o NO_DATA_TAIL>>, raised |-> "none"]
    ELSE [ret |-> <<metar_data(metar_resp), taf_data(taf_resp)>>, raised |-> "none"]

-----------------------------------------------------------------------------
(* handle_message *)

\* Line 96: the stripped, upper-cased text is four letters A-Z.
IsIcao(text) == FullMatchIcao(Upper(Strip(text)))

\* Line 107.
IcaoCode(text) == Upper(Strip(text))

\* FinalReply with line 113 reading "if metar and taf".
FinalReply_BothRequired(icao_code, metar, taf) ==
    IF Truthy(metar) /\ Truthy(taf)
    THEN Join(<<10>>,
              << REPORT_HEAD \o icao_code \o REPORT_TAIL,
                 METAR_SECTION,
                 metar,
                 TAF_SECTION,
                 taf >>)
    ELSE QUERY_FAILED_HEAD \o Format(taf)

\* Lines 113-134: the reply built from what get_aviation_weather returned.
FinalReply(icao_code, metar, taf) ==
    IF Truthy(metar) \/ Truthy(taf)
    THEN Join(<<10>>,
              << REPORT_HEAD \o icao_code \o REPORT_TAIL,
                 METAR_SECTION,
                 IF Truthy(metar) THEN metar
                 ELSE MISSING_HEAD \o icao_code \o METAR_MISSING_TAIL,
                 TAF_SECTION,
                 IF Truthy(taf) THEN taf
                 ELSE MISSING_HEAD \o icao_code \o TAF_MISSING_TAIL >>)
    ELSE QUERY_FAILED_HEAD \o Format(taf)

\* ReplyTexts with lines 101-104 left out: a rejected text gets no reply.
ReplyTexts_SilentReject(text, w) ==
    IF ~IsIcao(text) THEN <<>>
    ELSE <<FinalReply(IcaoCode(text), w.ret[1], w.ret[2])>>

\* The texts handle_message passes to reply_message, in order, given what
\* get_aviation_weather returned (w.ret, read only for a valid code).
ReplyTexts(text, w) ==
    IF ~IsIcao(text) THEN <<FORMAT_ERROR_TEXT>>
    ELSE <<FinalReply(IcaoCode(text), w.ret[1], w.ret[2])>>

\* get_aviation_weather was not called.
NotCalled == [ret |-> <<>>, raised |-> "none"]

\* One run of handle_message on an event, the mirror answering metar_resp and
\* taf_resp and the reply API accepting the call or not: the requests made,
\* the result of get_aviation_weather, the reply_message calls made, and the
\* exception that escapes ("none" if the handler returns).
handle_message(ev, metar_resp, taf_resp, reply_ok) ==
    LET valid == IsIcao(ev.text)
        w == IF valid THEN get_aviation_weather(IcaoCode(ev.text), metar_resp, taf_resp)
             ELSE NotCalled
        texts == IF w.raised # "none" THEN <<>> ELSE ReplyTexts(ev.text, w)
        \* a reply_message call the platform refuses raises LineBotApiError:
        \* nothing after it runs
        made == IF reply_ok \/ texts = <<>> THEN texts ELSE <<texts[1]>>
    IN  [ gets    |-> IF valid THEN Requested(IcaoCode(ev.text), metar_resp) ELSE <<>>,
          weather |-> w.ret,
          replies |-> [i \in 1..Len(made) |->
                          [reply_token |-> ev.reply_token, text |-> made[i], accepted |-> reply_ok]],
          raised  |-> IF w.raised # "none" THEN w.raised
                      ELSE IF ~reply_ok /\ texts # <<>> THEN "LineBotApiError"
                      ELSE "none" ]

-----------------------------------------------------------------------------
(* callback and the webhook handler's dispatch *)

\* The secret WebhookHandler was constructed with (line 23).
LINE_CHANNEL_SECRET == "channel_secret"

\* The X-Line-Signature of a body under a secret: the base64 HMAC-SHA256 of
\* the body keyed with the secret, kept symbolic. Two signatures are equal
\* exactly when secret and body are: the hash is taken to be collision-free.
Sign(secret, body) == <<secret, body>>

\* A request body: whether it parses as the platform's event envelope, and
\* how many events the envelope carries. What the events are is chosen when
\* each is dispatched.
Bodies == [parses : BOOLEAN, events : 0..MaxEvents]

\* An X-Line-Signature header: absent (line 79 reads it as ''), or the
\* signature of some body under the channel secret or under another one.
Signatures ==
    {<<>>} \cup {Sign(s, b) : s \in {LINE_CHANNEL_SECRET, "another_secret"}, b \in Bodies}

\* handler.handle(body, signature) up to the dispatch of the first event: the
\* exception it raises, "none" if the envelope is accepted. The signature is
\* validated before the body is parsed.
Parse(body, signature) ==
    IF signature # Sign(LINE_CHANNEL_SECRET, body) THEN "InvalidSignatureError"
    ELSE IF ~body.parses THEN "JSONDecodeError"
    ELSE "none"

\* CallbackStatus with line 86 left out: the view returns 'OK' after the
\* signature error was printed.
CallbackStatus_NoAbort(exc) ==
    IF exc = "none" \/ exc = "InvalidSignatureError" THEN 200
    ELSE 500

\* Lines 82-88: the status callback answers with, given the exception
\* handler.handle raised. Only InvalidSignatureError is caught; any other
\* exception leaves the view function and Flask answers 500.
CallbackStatus(exc) ==
    IF exc = "none" THEN 200
    ELSE IF exc = "InvalidSignatureError" THEN 400
    ELSE 500

NoRequest == [body |-> [parses |-> FALSE, events |-> 0], signature |-> <<>>]

NoEvent == [reply_token |-> 0, text |-> <<>>]

\* The part of the state that belongs to one run of handle_message.
NoEventState ==
    /\ event' = NoEvent
    /\ metar_response' = NotRequested
    /\ taf_response' = NotRequested
    /\ weather' = NotCalled.ret
    /\ get_log' = <<>>
    /\ reply_log' = <<>>
    /\ raised' = "none"

Init ==
    /\ pc = "idle"
    /\ request = NoRequest
    /\ http_status = 0
    /\ remaining = 0
    /\ handled = 0
    /\ reply_calls = 0
    /\ event = NoEvent
    /\ metar_response = NotRequested
    /\ taf_response = NotRequested
    /\ weather = NotCalled.ret
    /\ get_log = <<>>
    /\ reply_log = <<>>
    /\ raised = "none"

\* A POST /callback arrives: lines 79-83, up to the first event's dispatch,
\* and lines 84-86 when handler.handle raises at once.
Callback ==
    /\ pc = "idle"
    /\ \E body \in Bodies, signature \in Signatures :
          /\ request' = [body |-> body, signature |-> signature]
          /\ IF Parse(body, signature) = "none"
             THEN /\ pc' = "dispatch"
                  /\ http_status' = 0
                  /\ remaining' = body.events
             ELSE /\ pc' = "done"
                  /\ http_status' = CallbackStatus(Parse(body, signature))
                  /\ remaining' = 0
    /\ UNCHANGED <<handled, reply_calls, event, metar_response, taf_response,
                   weather, get_log, reply_log, raised>>

\* The next event is a text message: handle_message runs on it, from line 93
\* to its return or to the exception that leaves it.
HandleMessage ==
    /\ pc = "dispatch"
    /\ remaining > 0
    /\ \E text \in Texts, reply_ok \in BOOLEAN :
       \E m \in (IF IsIcao(text) THEN Responses ELSE {NotRequested}) :
       \E t \in (IF IsIcao(text) /\ RaisedBy(m) = "none" THEN Responses ELSE {NotRequested}) :
          LET ev == [reply_token |-> request.body.events - remaining + 1, text |-> text]
              run == handle_message(ev, m, t, reply_ok)
          IN  /\ event' = ev
              /\ metar_response' = m
              /\ taf_response' = t
              /\ weather' = run.weather
              /\ get_log' = run.gets
              /\ reply_log' = run.replies
              /\ raised' = run.raised
              /\ handled' = handled + 1
              /\ reply_calls' = reply_calls + Len(run.replies)
    /\ pc' = "handled"
    /\ UNCHANGED <<request, http_status, remaining>>

\* The next event is not a text message: no handler is registered for it
\* (line 91 registers MessageEvent with TextMessage only) and it is ignored.
SkipEvent ==
    /\ pc = "dispatch"
    /\ remaining > 0
    /\ remaining' = remaining - 1
    /\ UNCHANGED <<pc, request, http_status, handled, reply_calls, event,
                   metar_response, taf_response, weather, get_log, reply_log, raised>>

\* handle_message returned: the dispatch loop goes on to the next event.
EventReturns ==
    /\ pc = "handled"
    /\ raised = "none"
    /\ pc' = "dispatch"
    /\ remaining' = remaining - 1
    /\ NoEventState
    /\ UNCHANGED <<request, http_status, handled, reply_calls>>

\* An exception left handle_message: it leaves handler.handle and, not being
\* an InvalidSignatureError, callback as well (lines 82-86).
EventRaises ==
    /\ pc = "handled"
    /\ raised # "none"
    /\ pc' = "done"
    /\ http_status' = CallbackStatus(raised)
    /\ UNCHANGED <<request, remaining, handled, reply_calls, event, metar_response,
                   taf_response, weather, get_log, reply_log, raised>>

\* Every event was dispatched: line 88.
Return ==
    /\ pc = "dispatch"
    /\ remaining = 0
    /\ pc' = "done"
    /\ http_status' = CallbackStatus("none")
    /\ UNCHANGED <<request, remaining, handled, reply_calls, event, metar_response,
                   taf_response, weather, get_log, reply_log, raised>>

\* The request is answered; nothing of it is kept for the next one.
NextRequest ==
    /\ pc = "done"
    /\ pc' = "idle"
    /\ request' = NoRequest
    /\ http_status' = 0
    /\ remaining' = 0
    /\ handled' = 0
    /\ reply_calls' = 0
    /\ NoEventState

Next ==
    \/ Callback
    \/ HandleMessage
    \/ SkipEvent
    \/ EventReturns
    \/ EventRaises
    \/ Return
    \/ NextRequest

Spec == Init /\ [][Next]_vars

-----------------------------------------------------------------------------
(* Properties. The state of one run of handle_message (event, the two       *)
(* responses, weather, get_log, reply_log, raised) is in place from the     *)
(* moment the handler ends until the dispatch loop moves on.                *)

\* handle_message has run on an event.
Handled == event # NoEvent

\* ... and the text passed validation, so get_aviation_weather was called.
Queried == Handled /\ Len(weather) = 2

\* get_aviation_weather returned a failure: (None, message).
Failed == Queried /\ weather[1] = None

\* The response is an HTTP answer with a 2xx status.
Is2xx(resp) == resp.exc = "none" /\ resp.status_code \in 200..299

\* The response is an HTTP answer with a status that is not 2xx.
IsNon2xx(resp) == resp.exc = "none" /\ resp.status_code \notin 200..299

\* The request raised a transport-level exception.
IsTransportError(resp) == resp.exc \in {"ReadTimeout", "ConnectionError"}

\* The lines of a response body, as the program reads them.
BodyLines(resp) == Split(Strip(resp.text), 10)

\* The body has a second line and it is not empty.
HasDataLine(resp) == Len(BodyLines(resp)) > 1 /\ BodyLines(resp)[2] # <<>>

\* The two-section report, written out.
Report(icao_code, metar_part, taf_part) ==
    REPORT_HEAD \o icao_code \o REPORT_TAIL \o <<10>> \o METAR_SECTION \o <<10>>
        \o metar_part \o <<10>> \o TAF_SECTION \o <<10>> \o taf_part

\* The text has the shape of a two-section report for the code.
IsReport(text, icao_code) ==
    /\ Len(text) >= Len(REPORT_HEAD \o icao_code \o REPORT_TAIL)
    /\ SubSeq(text, 1, Len(REPORT_HEAD \o icao_code \o REPORT_TAIL))
          = REPORT_HEAD \o icao_code \o REPORT_TAIL

\* Exactly four ASCII letters, of either case.
FourAsciiLetters(s) ==
    /\ Len(s) = 4
    /\ \A i \in 1..4 : s[i] \in (65..90) \cup (97..122)

\* The identifier a requested URL carries.
IdentifierOf(url) ==
    IF SubSeq(url, 1, Len(METAR_URL_PREFIX)) = METAR_URL_PREFIX
    THEN SubSeq(url, Len(METAR_URL_PREFIX) + 1, Len(url) - Len(URL_SUFFIX))
    ELSE SubSeq(url, Len(TAF_URL_PREFIX) + 1, Len(url) - Len(URL_SUFFIX))

\* C1: whenever get_aviation_weather returns a failure, the text passed to
\* reply_message is exactly the "query failed" wrapper around the failure
\* message, and never the two-section report.
C1_FailureReplyIsWrapped ==
    (Failed /\ reply_log # <<>>) =>
        /\ reply_log[1].text = QUERY_FAILED_HEAD \o weather[2]
        /\ ~IsReport(reply_log[1].text, IcaoCode(event.text))

\* C2: a text that, trimmed, is not exactly four ASCII letters gets the fixed
\* format-error reply and causes no weather request; and every identifier
\* requested is four characters of A-Z.
C2_OnlyFourAsciiLettersAreQueried ==
    /\ (Handled /\ ~FourAsciiLetters(Strip(event.text))) =>
          /\ get_log = <<>>
          /\ \A i \in DOMAIN reply_log : reply_log[i].text = FORMAT_ERROR_TEXT
    /\ \A i \in DOMAIN get_log : FullMatchIcao(IdentifierOf(get_log[i]))

\* C3: a request whose signature is not the keyed hash of its body under the
\* channel secret is answered 400, and in serving it no event is dispatched,
\* no weather request is made and reply_message is not called.
C3_InvalidSignatureRejected ==
    (pc # "idle" /\ request.signature # Sign(LINE_CHANNEL_SECRET, request.body)) =>
        /\ pc = "done"
        /\ http_status = 400
        /\ handled = 0
        /\ ~Handled
        /\ get_log = <<>>
        /\ reply_calls = 0
        /\ reply_log = <<>>

\* C3 witness: a request signed under another secret has been answered.
C3_Witness ==
    /\ pc = "done"
    /\ request.signature = Sign("another_secret", request.body)
    /\ request.body.parses
    /\ request.body.events > 0
    /\ http_status = 400

\* C4: a request with a valid signature whose body does not parse as an event
\* envelope is answered with a 4xx status, and no reply is sent.
C4_MalformedBodyIs4xx ==
    (pc = "done" /\ request.signature = Sign(LINE_CHANNEL_SECRET, request.body)
                 /\ ~request.body.parses) =>
        /\ http_status \in 400..499
        /\ reply_calls = 0

\* C5: with both responses 2xx, a body of fewer than two lines makes that
\* bulletin the empty string, not an error; and when exactly one bulletin is
\* absent and the other body has a data line, get_aviation_weather returns a
\* success and the reply is the two-section report, with the not-found notice
\* in the absent bulletin's section and the other body's second line in its own.
C5_PartialResultIsSurfaced ==
    (Queried /\ Is2xx(metar_response) /\ Is2xx(taf_response)) =>
        LET icao_code == IcaoCode(event.text)
            metar_notice == MISSING_HEAD \o icao_code \o METAR_MISSING_TAIL
            taf_notice == MISSING_HEAD \o icao_code \o TAF_MISSING_TAIL
        IN  /\ (~HasDataLine(metar_response) /\ HasDataLine(taf_response)) =>
                  /\ weather = <<<<>>, BodyLines(taf_response)[2]>>
                  /\ Len(reply_log) = 1
                  /\ reply_log[1].text
                        = Report(icao_code, metar_notice, BodyLines(taf_response)[2])
            /\ (HasDataLine(metar_response) /\ ~HasDataLine(taf_response)) =>
                  /\ weather = <<BodyLines(metar_response)[2], <<>>>>
                  /\ Len(reply_log) = 1
                  /\ reply_log[1].text
                        = Report(icao_code, BodyLines(metar_response)[2], taf_notice)
            /\ (Len(BodyLines(metar_response)) < 2 /\ ~Failed) => weather[1] = <<>>
            /\ (Len(BodyLines(taf_response)) < 2 /\ ~Failed) => weather[2] = <<>>

\* C5 witness: the METAR body has a single line, the TAF body a data line,
\* and the reply went out.
C5_Witness ==
    /\ Queried
    /\ Is2xx(metar_response)
    /\ Is2xx(taf_response)
    /\ Len(BodyLines(metar_response)) = 1
    /\ BodyLines(metar_response)[1] # <<>>
    /\ HasDataLine(taf_response)
    /\ Len(reply_log) = 1
    /\ reply_log[1].accepted

\* C6: a non-2xx status fails its own bulletin only: both requests are made
\* whatever the first one's status, and when one request yields a data line
\* and the other a non-2xx status the outcome is a success that carries the
\* retrieved bulletin.
C6_Non2xxFailsItsBulletinOnly ==
    Queried =>
        /\ Len(get_log) = 2
        /\ (Is2xx(metar_response) /\ HasDataLine(metar_response) /\ IsNon2xx(taf_response)) =>
              /\ ~Failed
              /\ weather[1] = BodyLines(metar_response)[2]

\* C7: every run of handle_message calls reply_message exactly once, with the
\* event's reply token, whether validation failed, the query succeeded wholly
\* or in part, or it failed; a refused reply is not retried.
C7_ExactlyOneReply ==
    /\ Handled =>
          /\ Len(reply_log) = 1
          /\ reply_log[1].reply_token = event.reply_token
    /\ reply_calls = handled

\* C7 witness: a query failed, the platform refused the reply, and the
\* handler has ended.
C7_Witness ==
    /\ Failed
    /\ Len(reply_log) = 1
    /\ ~reply_log[1].accepted
    /\ pc = "done"

\* C8: when the reply_message call fails, the handling ends normally: no
\* exception leaves handle_message, and callback does not crash.
C8_ReplyFailureIsContained ==
    (Handled /\ \E i \in DOMAIN reply_log : ~reply_log[i].accepted) =>
        /\ raised = "none"
        /\ http_status # 500

\* C9: a transport-level exception raised by either weather request is
\* caught inside get_aviation_weather, which returns a failure whose message
\* carries the exception's class name; it never reaches handle_message.
C9_TransportErrorBecomesFailure ==
    /\ (Handled /\ IsTransportError(metar_response)) =>
          /\ weather = <<None, UNEXPECTED_ERROR_HEAD \o ClassName(metar_response.exc)>>
          /\ raised # metar_response.exc
    /\ (Handled /\ IsTransportError(taf_response)) =>
          /\ weather = <<None, UNEXPECTED_ERROR_HEAD \o ClassName(taf_response.exc)>>
          /\ raised # taf_response.exc
    /\ raised \notin {"ReadTimeout", "ConnectionError", "HTTPError"}

\* C9 witness: the METAR request went through, the TAF request timed out,
\* and a failure came back.
C9_Witness ==
    /\ Queried
    /\ Is2xx(metar_response)
    /\ HasDataLine(metar_response)
    /\ taf_response.exc = "ReadTimeout"
    /\ Failed
    /\ Len(reply_log) = 1

\* C10: a request answered 404 yields the "no report for this identifier"
\* message, and no other failure (another error status, a transport
\* exception, two empty bulletins) yields that message.
C10_NotFoundMessageIsDistinct ==
    Queried =>
        LET not_found == NOT_FOUND_HEAD \o IcaoCode(event.text) \o NOT_FOUND_TAIL
            got_404 == \/ (metar_response.exc = "none" /\ metar_response.status_code = 404)
                       \/ (taf_response.exc = "none" /\ taf_response.status_code = 404)
        IN  /\ got_404 => weather = <<None, not_found>>
            /\ (Failed /\ ~got_404) => weather[2] # not_found

\* C10 witness: the TAF request was answered 404 after a METAR with data.
C10_Witness ==
    /\ Queried
    /\ HasDataLine(metar_response)
    /\ taf_response.exc = "none"
    /\ taf_response.status_code = 404
    /\ Failed
    /\ weather[2] = NOT_FOUND_HEAD \o IcaoCode(event.text) \o NOT_FOUND_TAIL

====
